---------------------------- MODULE Spec2Model ----------------------------
(***************************************************************************)
(* Vector space model scoring engine of abdetaterefe/vsm                   *)
(* (src/src/index.ts, functions getUniqueTerms .. rankDocuments, and the   *)
(* POST handler that calls them).                                          *)
(*                                                                         *)
(* Representation.                                                         *)
(*   - A JavaScript string is a sequence of one-character strings.         *)
(*   - A JavaScript number is a record [k, v]: k = "num" with v an integer *)
(*     count of units, k = "nan" for NaN, k = "inf" for +Infinity.         *)
(*     Two units are used: a value read back from a 4-decimal string is    *)
(*     counted in units of 10^-4; a product of two such values, and a      *)
(*     logarithm, is counted in units of 10^-8.                            *)
(*   - The string produced by toFixed(4) is the same record, in units of   *)
(*     10^-4 ("0.3010" is [k |-> "num", v |-> 3010], "NaN" is NaN).        *)
(***************************************************************************)
EXTENDS Integers, Sequences, FiniteSets, TLC

VARIABLES pc, query, documents, tableData, queryVector, docVectors, rankedDocs

vars == <<pc, query, documents, tableData, queryVector, docVectors, rankedDocs>>

(***************************************************************************)
(* Inputs.                                                                 *)
(***************************************************************************)
ExQuery == <<"t","h","e"," ","c","a","t"," ","s","a","t">>
ExDoc1 == <<"t","h","e"," ","c","a","t"," ","s","a","t"," ","o","n"," ","t","h","e"," ","m","a","t">>
ExDoc2 == <<"a"," ","d","o","g"," ","s","a","t"," ","t","h","e","r","e">>
ExDoc3 == <<"c","a","t","s"," ","a","n","d"," ","d","o","g","s">>
ExDoc4 == <<"t","h","e"," ","m","a","t">>
NoWordText == <<"!">>
MixedCaseText == <<"T","h","e"," ","C","A","T",","," ","c","a","t","!">>
ProtoText == <<"_","_","p","r","o","t","o","_","_"," ","c","a","t">>
ExtraQuery == <<"d","o","g","_","1"," ","m","a","t">>
ExtraDoc == <<"A"," ","d","o","g",","," ","a"," ","D","O","G",".">>

\* The texts a query is drawn from, and the texts a document is drawn from.
QueryTexts == <<ExQuery, MixedCaseText, ProtoText, ExDoc4, ExtraQuery>>
DocTexts == <<ExDoc1, ExDoc2, ExDoc3, ExDoc4, NoWordText, MixedCaseText, ExtraDoc>>

MaxQueryTexts == 4
MaxDocTexts == 5

QueryPool == {QueryTexts[i] : i \in 1..MaxQueryTexts}
DocPool == {DocTexts[i] : i \in 1..MaxDocTexts}

\* The handler builds documents = [document_1, .., document_4].
NumDocs == 4

(***************************************************************************)
(* Numbers and the strings that spell them.                                *)
(***************************************************************************)
Num(n) == [k |-> "num", v |-> n]
NaN == [k |-> "nan", v |-> 0]
Infinity == [k |-> "inf", v |-> 0]
NegInfinity == [k |-> "ninf", v |-> 0]

\* The values other than numbers that reach parseFloat and ||.
Str(x) == [t |-> "string", k |-> x.k, v |-> x.v]
Number(x) == [t |-> "number", k |-> x.k, v |-> x.v]
Undefined == [t |-> "undefined"]
ObjectPrototype == [t |-> "object"]

\* x + y and x * y of numbers that are never negative.
NumAdd(x, y) ==
  IF x.k = "nan" \/ y.k = "nan" THEN NaN
  ELSE IF x.k = "inf" \/ y.k = "inf" THEN Infinity
  ELSE Num(x.v + y.v)

NumMul(x, y) ==
  IF x.k = "nan" \/ y.k = "nan" THEN NaN
  ELSE IF x.k = "inf" \/ y.k = "inf"
       THEN (IF (x.k = "num" /\ x.v = 0) \/ (y.k = "num" /\ y.v = 0) THEN NaN ELSE Infinity)
  ELSE Num(x.v * y.v)

\* x - y of numbers that are never negative.
NumSub(x, y) ==
  IF x.k = "nan" \/ y.k = "nan" THEN NaN
  ELSE IF x.k = "inf" THEN (IF y.k = "inf" THEN NaN ELSE Infinity)
  ELSE IF y.k = "inf" THEN NegInfinity
  ELSE Num(x.v - y.v)

\* Number.prototype.toFixed(4) of a number counted in units of 10^-8: the
\* string of the nearest multiple of 10^-4, the larger one on a tie; "NaN"
\* and "Infinity" for the non-finite numbers.
toFixed4(x) == IF x.k = "num" THEN Str(Num((x.v + 5000) \div 10000)) ELSE Str(x)

\* parseFloat: the number a 4-decimal string spells (in units of 10^-4); a
\* number is first converted to the string that spells it; an object is
\* converted to "[object Object]" and undefined to "undefined", which spell
\* no number.
parseFloat(x) ==
  IF x.t \in {"string", "number"} THEN [k |-> x.k, v |-> x.v] ELSE NaN

\* x || y
Or(x, y) ==
  IF x.t = "undefined" \/ (x.t = "number" /\ (x.k = "nan" \/ (x.k = "num" /\ x.v = 0)))
  THEN y ELSE x

\* A number counted in units of 10^-4, counted in units of 10^-8.
InUnits8(x) == IF x.k = "num" THEN Num(x.v * 10000) ELSE x

\* The integer part of the square root of n, found between lo and hi
\* (lo * lo <= n < hi * hi).
RECURSIVE ISqrtIn(_, _, _)
ISqrtIn(n, lo, hi) ==
  IF hi - lo <= 1 THEN lo
  ELSE LET mid == (lo + hi) \div 2
       IN  IF mid * mid <= n THEN ISqrtIn(n, mid, hi) ELSE ISqrtIn(n, lo, mid)

\* Math.sqrt(x).toFixed(4) for x counted in units of 10^-8: the integer
\* nearest to the square root, in units of 10^-4.
SqrtToFixed4(x) ==
  IF x.k # "num" THEN Str(x)
  ELSE LET r == ISqrtIn(x.v, 0, 46341)
       IN  Str(Num(IF x.v > r * r + r THEN r + 1 ELSE r))

\* <<q, r>> with a * b = q * m + r and 0 <= r < m, by doubling (no
\* intermediate value exceeds 2 * m).
RECURSIVE MulDivMod(_, _, _)
MulDivMod(a, b, m) ==
  IF b = 0 THEN <<0, 0>>
  ELSE LET h == MulDivMod(a, b \div 2, m)
           q2 == 2 * h[1] + ((2 * h[2]) \div m)
           r2 == (2 * h[2]) % m
           r3 == r2 + (IF b % 2 = 1 THEN a % m ELSE 0)
           q3 == q2 + (IF b % 2 = 1 THEN a \div m ELSE 0)
       IN  <<q3 + (r3 \div m), r3 % m>>

\* (x / y).toFixed(4) for x counted in units of 10^-4 and y in units of
\* 10^-8, neither negative: 0/0 is NaN, a positive number over 0 is Infinity.
DivToFixed4(x, y) ==
  IF x.k = "nan" \/ y.k = "nan" THEN Str(NaN)
  ELSE IF x.k = "inf" THEN (IF y.k = "inf" THEN Str(NaN) ELSE Str(Infinity))
  ELSE IF y.k = "inf" THEN Str(Num(0))
  ELSE IF y.v = 0 THEN (IF x.v = 0 THEN Str(NaN) ELSE Str(Infinity))
  ELSE LET qr == MulDivMod(x.v, 100000000, y.v)
       IN  Str(Num(IF 2 * qr[2] >= y.v THEN qr[1] + 1 ELSE qr[1]))

(***************************************************************************)
(* Tokenizer: toLowerCase().split(/\W+/), with or without .filter(x => x). *)
(***************************************************************************)
LowerLetters == <<"a","b","c","d","e","f","g","h","i","j","k","l","m",
                  "n","o","p","q","r","s","t","u","v","w","x","y","z">>
UpperLetters == <<"A","B","C","D","E","F","G","H","I","J","K","L","M",
                  "N","O","P","Q","R","S","T","U","V","W","X","Y","Z">>
DigitChars == <<"0","1","2","3","4","5","6","7","8","9">>

Range(s) == {s[i] : i \in DOMAIN s}

UpperSet == Range(UpperLetters)
LowerOf == [c \in UpperSet |->
              LowerLetters[CHOOSE i \in DOMAIN UpperLetters : UpperLetters[i] = c]]

toLowerCaseChar(c) == IF c \in UpperSet THEN LowerOf[c] ELSE c

toLowerCase(s) == [i \in 1..Len(s) |-> toLowerCaseChar(s[i])]

\* \w of a regular expression without the u and i flags.
WordChars ==
  Range(LowerLetters) \cup Range(UpperLetters) \cup Range(DigitChars) \cup {"_"}

IsWordChar(c) == c \in WordChars

\* s.split(/\W+/) from position i on: cur is the fragment being read, inSep
\* says that the previous character belonged to a separator run.  A separator
\* at either end of s leaves an empty fragment there, as in JavaScript.
RECURSIVE SplitFrom(_, _, _, _)
SplitFrom(s, i, cur, inSep) ==
  IF i > Len(s) THEN <<cur>>
  ELSE IF IsWordChar(s[i]) THEN SplitFrom(s, i + 1, Append(cur, s[i]), FALSE)
  ELSE IF inSep THEN SplitFrom(s, i + 1, cur, TRUE)
  ELSE <<cur>> \o SplitFrom(s, i + 1, <<>>, TRUE)

split(s) == SplitFrom(s, 1, <<>>, FALSE)

IsNonEmpty(w) == w # <<>>

\* doc.toLowerCase().split(/\W+/).filter((term) => term)
words(document) == SelectSeq(split(toLowerCase(document)), IsNonEmpty)

includes(seq, x) == \E i \in DOMAIN seq : seq[i] = x

(***************************************************************************)
(* Vocabulary and frequency statistics.                                    *)
(***************************************************************************)
\* Set.prototype.add on a Set kept in insertion order.
SetAdd(set, x) == IF includes(set, x) THEN set ELSE Append(set, x)

RECURSIVE AddAll(_, _)
AddAll(set, terms) ==
  IF terms = <<>> THEN set ELSE AddAll(SetAdd(set, Head(terms)), Tail(terms))

RECURSIVE UniqueTermsFrom(_, _)
UniqueTermsFrom(set, docs) ==
  IF docs = <<>> THEN set
  ELSE UniqueTermsFrom(AddAll(set, words(Head(docs))), Tail(docs))

getUniqueTerms(docs) == UniqueTermsFrom(<<>>, docs)

termFrequency(term, document) ==
  LET IsTerm(word) == word = term
  IN  Len(SelectSeq(words(document), IsTerm))

\* documentFrequency counting occurrences instead of documents.
documentFrequencyOfOccurrences(term, docs) ==
  LET IsTerm(word) == word = term
      RECURSIVE Count(_)
      Count(d) ==
        IF d > Len(docs) THEN 0
        ELSE Len(SelectSeq(split(toLowerCase(docs[d])), IsTerm)) + Count(d + 1)
  IN  Count(1)

documentFrequency(term, docs) ==
  LET HasTerm(doc) == includes(split(toLowerCase(doc)), term)
  IN  Len(SelectSeq(docs, HasTerm))

\* Math.log10(n / df) in units of 10^-8, for a collection of four documents
\* (a count above n has a negative logarithm).
Log10Ratio(n, df) ==
  CASE n = df -> 0
    [] n = 4 /\ df = 1 -> 60205999
    [] n = 4 /\ df = 2 -> 30103000
    [] n = 4 /\ df = 3 -> 12493874
    [] n = 4 /\ df = 5 -> -9691001
    [] n = 4 /\ df = 6 -> -17609126
    [] n = 4 /\ df = 7 -> -24303805
    [] n = 4 /\ df = 8 -> -30103000

\* inverseDocumentFrequency without its guard: log10(n / 0) is Infinity.
inverseDocumentFrequencyUnguarded(term, docs) ==
  LET df == documentFrequency(term, docs)
  IN  IF df = 0 THEN Infinity ELSE Num(Log10Ratio(Len(docs), df))

inverseDocumentFrequency(term, docs) ==
  LET df == documentFrequency(term, docs)
  IN  IF df = 0 THEN Num(0) ELSE Num(Log10Ratio(Len(docs), df))

(***************************************************************************)
(* calculateTFIDF                                                          *)
(***************************************************************************)
\* `D${index + 1}`
DocKeys == <<"D1", "D2", "D3", "D4">>
TextKeys == {"Q", "D1", "D2", "D3", "D4"}

\* Array.prototype.join(", ") of an array of two-character labels.
RECURSIVE join(_)
join(labels) ==
  IF labels = <<>> THEN <<>>
  ELSE IF Len(labels) = 1 THEN Head(labels)
  ELSE Head(labels) \o <<",", " ">> \o join(Tail(labels))

Label(d) == <<"D", DigitChars[d + 1]>>

\* TermRow multiplying by the logarithm itself instead of by the parsed
\* 4-decimal string.
TermRowUnroundedIdf(term, q, docs) ==
  LET TF == [Q  |-> termFrequency(term, q),
             D1 |-> termFrequency(term, docs[1]),
             D2 |-> termFrequency(term, docs[2]),
             D3 |-> termFrequency(term, docs[3]),
             D4 |-> termFrequency(term, docs[4])]
      DF == documentFrequency(term, docs)
      idf == inverseDocumentFrequency(term, docs)
      TF_IDF == [key \in TextKeys |-> toFixed4(NumMul(Num(TF[key]), idf))]
      containingDocs ==
        (IF TF.D1 > 0 THEN <<Label(1)>> ELSE <<>>) \o
        (IF TF.D2 > 0 THEN <<Label(2)>> ELSE <<>>) \o
        (IF TF.D3 > 0 THEN <<Label(3)>> ELSE <<>>) \o
        (IF TF.D4 > 0 THEN <<Label(4)>> ELSE <<>>)
  IN  [term |-> term, TF |-> TF, DF |-> DF, IDF |-> toFixed4(idf), TF_IDF |-> TF_IDF,
       containingDocs |-> join(containingDocs)]

TermRow(term, q, docs) ==
  LET TF == [Q  |-> termFrequency(term, q),
             D1 |-> termFrequency(term, docs[1]),
             D2 |-> termFrequency(term, docs[2]),
             D3 |-> termFrequency(term, docs[3]),
             D4 |-> termFrequency(term, docs[4])]
      DF == documentFrequency(term, docs)
      IDF == toFixed4(inverseDocumentFrequency(term, docs))
      TF_IDF == [key \in TextKeys |->
                   toFixed4(InUnits8(NumMul(Num(TF[key]), parseFloat(IDF))))]
      containingDocs ==
        (IF TF.D1 > 0 THEN <<Label(1)>> ELSE <<>>) \o
        (IF TF.D2 > 0 THEN <<Label(2)>> ELSE <<>>) \o
        (IF TF.D3 > 0 THEN <<Label(3)>> ELSE <<>>) \o
        (IF TF.D4 > 0 THEN <<Label(4)>> ELSE <<>>)
  IN  [term |-> term, TF |-> TF, DF |-> DF, IDF |-> IDF, TF_IDF |-> TF_IDF,
       containingDocs |-> join(containingDocs)]

calculateTFIDF(q, docs) ==
  LET uniqueTerms == getUniqueTerms(<<q>> \o docs)
  IN  [i \in 1..Len(uniqueTerms) |-> TermRow(uniqueTerms[i], q, docs)]

(***************************************************************************)
(* Vectors and cosine similarity.                                          *)
(***************************************************************************)
\* The sum sum + f(i) over i = from .. Len(vector), as reduce computes it.
RECURSIVE SumSquaresFrom(_, _, _)
SumSquaresFrom(vector, i, sum) ==
  IF i > Len(vector) THEN sum
  ELSE SumSquaresFrom(vector, i + 1, NumAdd(sum, NumMul(vector[i], vector[i])))

vectorMagnitude(vector) == SqrtToFixed4(SumSquaresFrom(vector, 1, Num(0)))

\* vector2[i] of an index past the end of vector2 is undefined, a NaN product.
RECURSIVE SumProductsFrom(_, _, _, _)
SumProductsFrom(vector1, vector2, i, sum) ==
  IF i > Len(vector1) THEN sum
  ELSE SumProductsFrom(vector1, vector2, i + 1,
         NumAdd(sum, NumMul(vector1[i],
                            IF i \in DOMAIN vector2 THEN vector2[i] ELSE NaN)))

dotProduct(vector1, vector2) == toFixed4(SumProductsFrom(vector1, vector2, 1, Num(0)))

\* The property names an object literal {} inherits from Object.prototype
\* that a lower-case token can spell.
ProtoKey == <<"_","_","p","r","o","t","o","_","_">>
ConstructorKey == <<"c","o","n","s","t","r","u","c","t","o","r">>

\* acc[name] = value for a string value: an own property, except that the
\* name __proto__ reaches the inherited setter, which ignores a string.
SetProperty(obj, name, value) ==
  IF name = ProtoKey THEN obj
  ELSE [n \in (DOMAIN obj) \cup {name} |-> IF n = name THEN value ELSE obj[n]]

\* obj[name]: the own property, else the inherited one, else undefined.
GetProperty(obj, name) ==
  IF name \in DOMAIN obj THEN obj[name]
  ELSE IF name \in {ProtoKey, ConstructorKey} THEN ObjectPrototype
  ELSE Undefined

EmptyObject == [n \in {} |-> Undefined]

\* tableData.reduce((acc, item) => { acc[item.term] = item.TF_IDF[key]; .. }, {})
RECURSIVE WeightsFrom(_, _, _, _)
WeightsFrom(table, key, i, acc) ==
  IF i > Len(table) THEN acc
  ELSE WeightsFrom(table, key, i + 1,
                   SetProperty(acc, table[i].term, table[i].TF_IDF[key]))

Weights(table, key) == WeightsFrom(table, key, 1, EmptyObject)

createVector(TF_IDF, uniqueTerms) ==
  [i \in 1..Len(uniqueTerms) |->
     parseFloat(Or(GetProperty(TF_IDF, uniqueTerms[i]), Number(Num(0))))]

\* cosineSimilarity reporting 0.0000 for a vector of magnitude 0.
cosineSimilarityGuarded(qVector, documentVector) ==
  LET dotProd == parseFloat(dotProduct(qVector, documentVector))
      magnitudeQuery == parseFloat(vectorMagnitude(qVector))
      magnitudeDoc == parseFloat(vectorMagnitude(documentVector))
      product == NumMul(magnitudeQuery, magnitudeDoc)
  IN  [similarityScore |-> IF product = Num(0) THEN Str(Num(0))
                           ELSE DivToFixed4(dotProd, product),
       magnitudeQuery |-> magnitudeQuery]

\* cosineSimilarity dividing the dot product before it is rounded.
cosineSimilarityUnroundedDot(qVector, documentVector) ==
  LET sum == SumProductsFrom(qVector, documentVector, 1, Num(0))
      magnitudeQuery == parseFloat(vectorMagnitude(qVector))
      magnitudeDoc == parseFloat(vectorMagnitude(documentVector))
      product == NumMul(magnitudeQuery, magnitudeDoc)
  IN  [similarityScore |->
         IF sum.k = "num" /\ product.k = "num" /\ product.v > 0
         THEN LET qr == MulDivMod(sum.v, 10000, product.v)
              IN  Str(Num(IF 2 * qr[2] >= product.v THEN qr[1] + 1 ELSE qr[1]))
         ELSE DivToFixed4(parseFloat(toFixed4(sum)), product),
       magnitudeQuery |-> magnitudeQuery]

cosineSimilarity(qVector, documentVector) ==
  LET dotProd == parseFloat(dotProduct(qVector, documentVector))
      magnitudeQuery == parseFloat(vectorMagnitude(qVector))
      magnitudeDoc == parseFloat(vectorMagnitude(documentVector))
  IN  [similarityScore |-> DivToFixed4(dotProd, NumMul(magnitudeQuery, magnitudeDoc)),
       magnitudeQuery |-> magnitudeQuery]

IsPositive(v) == (v.k = "num" /\ v.v > 0) \/ v.k = "inf"

\* docVector.map((v, i) => v > 0 && queryVector[i] > 0 ? [v, queryVector[i]]
\* : undefined).filter((v) => v)
RECURSIVE PairsFrom(_, _, _)
PairsFrom(docVector, qVector, i) ==
  IF i > Len(docVector) THEN <<>>
  ELSE (IF IsPositive(docVector[i]) /\ IsPositive(qVector[i])
        THEN <<<<docVector[i], qVector[i]>>>> ELSE <<>>)
       \o PairsFrom(docVector, qVector, i + 1)

uniqueTermsOf(table) == [i \in 1..Len(table) |-> table[i].term]

\* The query vector laid out over the terms in the opposite order to the
\* document vectors.
queryVectorOfOtherOrder(table) ==
  LET v == createVector(Weights(table, "Q"), uniqueTermsOf(table))
  IN  [i \in 1..Len(v) |-> v[Len(v) + 1 - i]]

queryVectorOf(table) == createVector(Weights(table, "Q"), uniqueTermsOf(table))

docVectorOf(table, index) ==
  createVector(Weights(table, DocKeys[index + 1]), uniqueTermsOf(table))

\* The element documents.map builds for the document at the 0-based index.
Similarity(table, index) ==
  LET qVector == queryVectorOf(table)
      docVector == docVectorOf(table, index)
      cos == cosineSimilarity(qVector, docVector)
  IN  [margitanQuery |-> cos.magnitudeQuery,
       queryVectors |-> SelectSeq(qVector, IsPositive),
       docIndex |-> index + 1,
       similarity |-> cos.similarityScore,
       vector |-> SelectSeq(docVector, IsPositive),
       vectorLength |-> vectorMagnitude(docVector),
       dotProducts |-> PairsFrom(docVector, qVector, 1),
       dotProduct |-> dotProduct(qVector, docVector)]

\* A comparator that never answers 0: b.similarity >= a.similarity ? 1 : -1
BySimilarityWithoutTie(a, b) ==
  LET diff == NumSub(parseFloat(b.similarity), parseFloat(a.similarity))
  IN  IF (diff.k = "num" /\ diff.v >= 0) \/ diff.k = "inf" THEN Num(1) ELSE Num(-1)

\* The comparator with its operands exchanged: ascending similarity.
BySimilarityAscending(a, b) == NumSub(parseFloat(a.similarity), parseFloat(b.similarity))

\* (a, b) => parseFloat(b.similarity) - parseFloat(a.similarity)
BySimilarity(a, b) == NumSub(parseFloat(b.similarity), parseFloat(a.similarity))

similaritiesOf(docs, table) == [i \in 1..Len(docs) |-> Similarity(table, i - 1)]

(***************************************************************************)
(* The handler's sort of the term table: a.term.localeCompare(b.term).     *)
(***************************************************************************)
\* The collation order of the characters a term is made of: the underscore
\* before the digits, the digits before the letters.
Collation == <<"_">> \o DigitChars \o LowerLetters

CollationRank == [c \in Range(Collation) |-> CHOOSE i \in DOMAIN Collation : Collation[i] = c]

RECURSIVE localeCompareFrom(_, _, _)
localeCompareFrom(a, b, i) ==
  IF i > Len(a) /\ i > Len(b) THEN 0
  ELSE IF i > Len(a) THEN -1
  ELSE IF i > Len(b) THEN 1
  ELSE IF CollationRank[a[i]] < CollationRank[b[i]] THEN -1
  ELSE IF CollationRank[a[i]] > CollationRank[b[i]] THEN 1
  ELSE localeCompareFrom(a, b, i + 1)

localeCompare(a, b) == localeCompareFrom(a, b, 1)

ByTerm(a, b) == Num(localeCompare(a.term, b.term))

(***************************************************************************)
(* Array.prototype.sort, as Node's engine runs it on an array of fewer     *)
(* than 64 elements: the leading run is found (and reversed when it is     *)
(* strictly descending), then the remaining elements are placed by binary  *)
(* insertion.  A comparator result of NaN counts as 0.                     *)
(***************************************************************************)
SortCompare(v) ==
  IF v.k = "nan" THEN 0
  ELSE IF v.k = "inf" THEN 1
  ELSE IF v.k = "ninf" THEN -1
  ELSE v.v

Reverse(arr) == [i \in 1..Len(arr) |-> arr[Len(arr) + 1 - i]]

\* The insertion without the shift: the pivot overwrites the element at left.
MoveToWithoutShift(arr, start, left) ==
  [i \in 1..Len(arr) |-> IF i = left THEN arr[start] ELSE arr[i]]

\* arr with the element at index start moved to index left <= start.
MoveTo(arr, start, left) ==
  [i \in 1..Len(arr) |->
     IF i < left \/ i > start THEN arr[i]
     ELSE IF i = left THEN arr[start]
     ELSE arr[i - 1]]

\* The call of the comparator a sort was given.
Call(comparefn, x, y) ==
  IF comparefn = "BySimilarity" THEN BySimilarity(x, y) ELSE ByTerm(x, y)

ArraySort(arr, comparefn) ==
  LET Compare(x, y) == SortCompare(Call(comparefn, x, y))
      RECURSIVE RunLengthFrom(_, _)
      RunLengthFrom(idx, isDescending) ==
        IF idx > Len(arr) THEN idx - 1
        ELSE LET order == Compare(arr[idx], arr[idx - 1])
             IN  IF (isDescending /\ order >= 0) \/ (~isDescending /\ order < 0)
                 THEN idx - 1
                 ELSE RunLengthFrom(idx + 1, isDescending)
      isDesc == Compare(arr[2], arr[1]) < 0
      runLength == RunLengthFrom(3, isDesc)
      withRun ==
        IF isDesc
        THEN Reverse(SubSeq(arr, 1, runLength)) \o SubSeq(arr, runLength + 1, Len(arr))
        ELSE arr
      RECURSIVE InsertionPoint(_, _, _, _)
      InsertionPoint(work, pivot, left, right) ==
        IF left >= right THEN left
        ELSE LET mid == left + ((right - left) \div 2)
             IN  IF Compare(pivot, work[mid]) < 0
                 THEN InsertionPoint(work, pivot, left, mid)
                 ELSE InsertionPoint(work, pivot, mid + 1, right)
      RECURSIVE BinaryInsertionSort(_, _)
      BinaryInsertionSort(work, start) ==
        IF start > Len(work) THEN work
        ELSE BinaryInsertionSort(
               MoveTo(work, start, InsertionPoint(work, work[start], 1, start)),
               start + 1)
  IN  IF Len(arr) < 2 THEN arr ELSE BinaryInsertionSort(withRun, runLength + 1)

rankDocuments(docs, table) == ArraySort(similaritiesOf(docs, table), "BySimilarity")

(***************************************************************************)
(* The state machine: one request.  queryVector and docVectors hold the    *)
(* vectors rankDocuments builds on its way.                                *)
(***************************************************************************)
Init ==
  /\ pc = "input"
  /\ query \in QueryPool
  /\ documents \in [1..NumDocs -> DocPool]
  /\ tableData = <<>>
  /\ queryVector = <<>>
  /\ docVectors = <<>>
  /\ rankedDocs = <<>>

CalculateTFIDF ==
  /\ pc = "input"
  /\ tableData' = calculateTFIDF(query, documents)
  /\ pc' = "table"
  /\ UNCHANGED <<query, documents, queryVector, docVectors, rankedDocs>>

\* The handler sorts the table by term before it ranks.
SortTable ==
  /\ pc = "table"
  /\ tableData' = ArraySort(tableData, "ByTerm")
  /\ pc' = "sorted"
  /\ UNCHANGED <<query, documents, queryVector, docVectors, rankedDocs>>

\* rankDocuments, on the table as calculateTFIDF returned it (the exported
\* function) or as the handler sorted it.
RankDocuments ==
  /\ pc \in {"table", "sorted"}
  /\ queryVector' = queryVectorOf(tableData)
  /\ docVectors' = [d \in 1..Len(documents) |-> docVectorOf(tableData, d - 1)]
  /\ rankedDocs' = rankDocuments(documents, tableData)
  /\ pc' = "ranked"
  /\ UNCHANGED <<query, documents, tableData>>

Next == CalculateTFIDF \/ SortTable \/ RankDocuments

Spec == Init /\ [][Next]_vars

(***************************************************************************)
(* Properties.                                                             *)
(***************************************************************************)
Ranked == pc = "ranked"
Positions == 1..Len(rankedDocs)
Rows == 1..Len(tableData)
Score(i) == parseFloat(rankedDocs[i].similarity)
IsNumeric(x) == x.k = "num"
IsZero(x) == x.k = "num" /\ x.v = 0
AllZero(vector) == \A i \in DOMAIN vector : IsZero(vector[i])
AllNumeric(vector) == \A i \in DOMAIN vector : IsNumeric(vector[i])
TextOf(key) ==
  IF key = "Q" THEN query
  ELSE documents[CHOOSE d \in DOMAIN DocKeys : DocKeys[d] = key]
ExampleInput == query = ExQuery /\ documents = <<ExDoc1, ExDoc2, ExDoc3, ExDoc4>>

\* C1: in the output of rankDocuments, of any two entries whose similarity
\* scores are both numeric, the one with the strictly higher score comes
\* earlier, whatever the scores of the other entries are.
C1_SortedDescending ==
  Ranked =>
    \A i, j \in Positions :
      (IsNumeric(Score(i)) /\ IsNumeric(Score(j)) /\ Score(i).v > Score(j).v) => i < j

\* C2: of any two entries of the output with equal similarity score, the one
\* with the smaller docIndex comes first.
C2_StableTies ==
  Ranked =>
    \A i, j \in Positions :
      (i < j /\ rankedDocs[i].similarity = rankedDocs[j].similarity)
        => rankedDocs[i].docIndex < rankedDocs[j].docIndex

\* A ranked output in which two documents tie on a numeric score above 0 and
\* the sort has moved a later document to the front.
C2_Witness ==
  /\ Ranked
  /\ rankedDocs[1].docIndex # 1
  /\ \E i, j \in Positions :
       /\ i < j
       /\ rankedDocs[i].similarity = rankedDocs[j].similarity
       /\ IsNumeric(Score(i)) /\ Score(i).v > 0

\* C3 as stated: the IDF of a term is 0 exactly when its DF is 0; otherwise it
\* is log10(N / DF) and lies between 0 and log10(N).
C3_IdfZeroIffAbsent ==
  \A r \in Rows :
    LET idf == inverseDocumentFrequency(tableData[r].term, documents)
        DF == tableData[r].DF
    IN  /\ IsZero(idf) <=> DF = 0
        /\ DF # 0 => idf = Num(Log10Ratio(NumDocs, DF))
        /\ IsNumeric(idf) /\ 0 <= idf.v /\ idf.v <= Log10Ratio(NumDocs, 1)

\* C3 as amended: the IDF of a term is 0 exactly when its DF is 0 or N (the
\* term is in no document or in every document); for a DF in 1..N it is
\* log10(N / DF), it lies between 0 and log10(N), and the stored IDF is that
\* value rounded to 4 decimals.
C3_IdfZeroIffAbsentOrEverywhere ==
  \A r \in Rows :
    LET idf == inverseDocumentFrequency(tableData[r].term, documents)
        DF == tableData[r].DF
    IN  /\ IsZero(idf) <=> DF \in {0, NumDocs}
        /\ IsZero(parseFloat(tableData[r].IDF)) <=> DF \in {0, NumDocs}
        /\ DF # 0 => idf = Num(Log10Ratio(NumDocs, DF))
        /\ IsNumeric(idf) /\ 0 <= idf.v /\ idf.v <= Log10Ratio(NumDocs, 1)
        /\ tableData[r].IDF = Str(Num((idf.v + 5000) \div 10000))

\* A table with a term of every document (IDF 0), a term of no document
\* (IDF 0) and a term of some documents (IDF above 0).
C3_Witness ==
  /\ \E r \in Rows : tableData[r].DF = NumDocs /\ IsZero(parseFloat(tableData[r].IDF))
  /\ \E r \in Rows : tableData[r].DF = 0 /\ IsZero(parseFloat(tableData[r].IDF))
  /\ \E r \in Rows : tableData[r].DF \in 1..(NumDocs - 1)
                      /\ parseFloat(tableData[r].IDF).v > 0

\* C4: an entry whose document vector, or whose query vector, is all zeros
\* reports the similarity NaN (not 0); every document still has exactly one
\* entry, and an entry whose vectors are numeric and not all zeros reports a
\* numeric similarity.
C4_ZeroMagnitudeIsNaN ==
  Ranked =>
    \A d \in DOMAIN documents :
      /\ Cardinality({i \in Positions : rankedDocs[i].docIndex = d}) = 1
      /\ \A i \in Positions :
           rankedDocs[i].docIndex = d =>
             /\ (AllZero(queryVector) \/ AllZero(docVectors[d]))
                  => rankedDocs[i].similarity = Str(NaN)
             /\ ( /\ AllNumeric(queryVector) /\ ~AllZero(queryVector)
                  /\ AllNumeric(docVectors[d]) /\ ~AllZero(docVectors[d]) )
                  => IsNumeric(Score(i))

\* A ranked output with a document whose vector is all zeros beside a
\* document with a numeric score above 0.
C4_Witness ==
  /\ Ranked
  /\ ~AllZero(queryVector)
  /\ \E i, j \in Positions :
       /\ AllZero(docVectors[rankedDocs[i].docIndex])
       /\ rankedDocs[i].similarity = Str(NaN)
       /\ IsNumeric(Score(j)) /\ Score(j).v > 0

\* C5: the query vector and every document vector have one entry per row of
\* the term table, and the i-th entry is the TF-IDF weight the i-th row
\* stores for that text.
C5_VectorAlignment ==
  Ranked =>
    /\ Len(queryVector) = Len(tableData)
    /\ \A i \in Rows : queryVector[i] = parseFloat(tableData[i].TF_IDF.Q)
    /\ \A d \in DOMAIN documents :
         /\ Len(docVectors[d]) = Len(tableData)
         /\ \A i \in Rows : docVectors[d][i] = parseFloat(tableData[i].TF_IDF[DocKeys[d]])

\* The number of labels in a string joined with ", ".
LabelCount(s) ==
  IF s = <<>> THEN 0 ELSE 1 + Cardinality({i \in DOMAIN s : s[i] = ","})

\* C6: the DF of a row is the number of documents in which the term occurs
\* at least once, lies in 0..N, and is the number of labels in containingDocs.
C6_DocumentFrequency ==
  \A r \in Rows :
    LET row == tableData[r]
    IN  /\ row.DF = Cardinality({d \in DOMAIN documents :
                                   termFrequency(row.term, documents[d]) >= 1})
        /\ row.DF \in 0..NumDocs
        /\ row.DF = LabelCount(row.containingDocs)

\* A row whose term occurs twice in one document.
C6_Witness ==
  \E r \in Rows :
    /\ tableData[r].DF \in 1..NumDocs
    /\ \E d \in DOMAIN documents : tableData[r].TF[DocKeys[d]] >= 2

\* C7: the stored weight of a term for a text is the term's frequency in the
\* text times the stored 4-decimal IDF, as a 4-decimal string; it is 0.0000
\* when the frequency is 0 or the IDF is 0.0000.
C7_WeightFromRoundedIdf ==
  \A r \in Rows : \A key \in TextKeys :
    LET row == tableData[r]
        tf == termFrequency(row.term, TextOf(key))
    IN  /\ row.TF[key] = tf
        /\ row.TF_IDF[key] = Str(Num(tf * parseFloat(row.IDF).v))
        /\ (tf = 0 \/ IsZero(parseFloat(row.IDF))) => row.TF_IDF[key] = Str(Num(0))

\* A row whose term occurs twice in a text and whose logarithm is not a
\* 4-decimal number, so that rounding before or after the product differs.
C7_Witness ==
  \E r \in Rows : \E key \in TextKeys :
    /\ tableData[r].TF[key] = 2
    /\ tableData[r].DF = 1
    /\ tableData[r].TF_IDF[key] = Str(Num(12042))

\* C8: for the example query and documents the vocabulary is the eleven
\* terms listed, "sat" has DF 2 and IDF 0.3010, and in the ranked output
\* document 1 is first and ahead of document 4.
C8_Example ==
  ExampleInput =>
    /\ pc # "input" =>
         /\ {tableData[r].term : r \in Rows} =
              { <<"t","h","e">>, <<"c","a","t">>, <<"s","a","t">>, <<"o","n">>,
                <<"m","a","t">>, <<"a">>, <<"d","o","g">>, <<"t","h","e","r","e">>,
                <<"c","a","t","s">>, <<"a","n","d">>, <<"d","o","g","s">> }
         /\ Len(tableData) = 11
         /\ \E r \in Rows :
              /\ tableData[r].term = <<"s","a","t">>
              /\ tableData[r].DF = 2
              /\ tableData[r].IDF = Str(Num(3010))
    /\ Ranked =>
         /\ rankedDocs[1].docIndex = 1
         /\ \E i, j \in Positions :
              i < j /\ rankedDocs[i].docIndex = 1 /\ rankedDocs[j].docIndex = 4

\* The example, ranked.
C8_Witness == ExampleInput /\ Ranked /\ Len(rankedDocs) = NumDocs

\* C9: the similarity an entry reports is its reported dot product divided
\* by the product of its reported query magnitude and its reported vector
\* length, rounded to 4 decimals; the reported dot product and magnitudes are
\* the 4-decimal roundings of the sums over the vectors.
C9_ReportedFieldsConsistent ==
  Ranked =>
    \A i \in Positions :
      LET e == rankedDocs[i]
          docVector == docVectors[e.docIndex]
      IN  /\ e.similarity =
               DivToFixed4(parseFloat(e.dotProduct),
                           NumMul(e.margitanQuery, parseFloat(e.vectorLength)))
          /\ e.dotProduct = toFixed4(SumProductsFrom(queryVector, docVector, 1, Num(0)))
          /\ e.vectorLength = SqrtToFixed4(SumSquaresFrom(docVector, 1, Num(0)))
          /\ e.margitanQuery =
               parseFloat(SqrtToFixed4(SumSquaresFrom(queryVector, 1, Num(0))))

\* An entry with a similarity strictly between 0 and 1 whose dot product was
\* changed by its rounding.
C9_Witness ==
  /\ Ranked
  /\ \E i \in Positions :
       /\ IsNumeric(Score(i)) /\ Score(i).v > 0 /\ Score(i).v < 10000
       /\ LET sum == SumProductsFrom(queryVector, docVectors[rankedDocs[i].docIndex], 1, Num(0))
          IN  IsNumeric(sum) /\ sum.v % 10000 # 0

\* C10: the output has one entry per document, the docIndex values are
\* exactly 1..N, and each entry holds the vector, magnitude, dot product and
\* similarity of the document with its docIndex.
C10_PermutationOfDocuments ==
  Ranked =>
    /\ Len(rankedDocs) = Len(documents)
    /\ {rankedDocs[i].docIndex : i \in Positions} = 1..NumDocs
    /\ \A i \in Positions :
         LET e == rankedDocs[i]
             docVector == docVectors[e.docIndex]
         IN  /\ e.vector = SelectSeq(docVector, IsPositive)
             /\ e.vectorLength = vectorMagnitude(docVector)
             /\ e.dotProduct = dotProduct(queryVector, docVector)
             /\ e.similarity = DivToFixed4(parseFloat(dotProduct(queryVector, docVector)),
                                 NumMul(parseFloat(vectorMagnitude(queryVector)),
                                        parseFloat(vectorMagnitude(docVector))))

\* A ranked output whose order differs from the order of the documents and
\* whose entries have four different vectors.
C10_Witness ==
  /\ Ranked
  /\ \E i \in Positions : rankedDocs[i].docIndex # i
  /\ Cardinality({rankedDocs[i].vector : i \in Positions}) = NumDocs

\* C11: every numeric similarity score of the output lies between 0.0000 and
\* 1.0000.
C11_SimilarityInUnitInterval ==
  Ranked =>
    \A i \in Positions :
      IsNumeric(Score(i)) => 0 <= Score(i).v /\ Score(i).v <= 10000

\* The rows of a table in other orders: sorted by term, reversed, rotated by
\* one row, and with the first two rows exchanged.
RowOrders(table) ==
  IF Len(table) < 2 THEN {table}
  ELSE { ArraySort(table, "ByTerm"),
         Reverse(table),
         Tail(table) \o <<Head(table)>>,
         <<table[2], table[1]>> \o SubSeq(table, 3, Len(table)) }

\* What an output says of each document, in output order.
Scores(ranked) ==
  [i \in 1..Len(ranked) |->
     [docIndex |-> ranked[i].docIndex,
      margitanQuery |-> ranked[i].margitanQuery,
      vectorLength |-> ranked[i].vectorLength,
      dotProduct |-> ranked[i].dotProduct,
      similarity |-> ranked[i].similarity]]

=============================================================================
